---- MODULE Spec2Model ----
(***************************************************************************)
(* State-machine model of qhdopt/backend/cim_backend.py (class CIMBackend). *)
(*                                                                         *)
(* One backend instance is modelled.  Its configuration is chosen in Init  *)
(* (the constructor call), its public methods compile, exec and            *)
(* calc_h_and_J are called one after the other by a single caller.         *)
(* The external collaborators (the simuq/D-Wave compiler, the CIM solver)  *)
(* are nondeterministic: each call either returns a value drawn from a     *)
(* small set or raises.  The compiler's answer to the *reference* system   *)
(* of calc_penalty_coefficient_and_chain_strength is fixed per behaviour   *)
(* (variable reference): that system is rebuilt from scratch from          *)
(* immutable inputs on every call, so a deterministic compiler answers it  *)
(* the same way every time.                                                *)
(*                                                                         *)
(* Real numbers: tuning scalars are exact rationals <<num, den>> in lowest *)
(* terms, den > 0; Ising coefficients are integers.  Floating-point        *)
(* rounding is not modelled.                                               *)
(* Qubit index q of the model is Python index q - 1.                       *)
(* Wall-clock time is a logical clock: time.time() is the number of        *)
(* external calls (compiler, solver) made so far in the current call.      *)
(* events is a history variable: the collaborator calls and info writes of *)
(* the current call, in order.                                             *)
(* verbose only selects printing and is left out.                          *)
(***************************************************************************)
EXTENDS Integers, Sequences, FiniteSets, TLC

\* ---------------------------------------------------------------- bounds
NumQubits == 2
MaxShots == 2
MaxCalls == 2

Qubits == 1..NumQubits

\* ------------------------------------------------------------- rationals
Abs(x) == IF x < 0 THEN -x ELSE x

RECURSIVE GCD(_, _)
GCD(a, b) == IF b = 0 THEN a ELSE GCD(b, a % b)

Rat(n, d) == LET g == GCD(Abs(n), d) IN <<n \div g, d \div g>>

RMul(a, b) == Rat(a[1] * b[1], a[2] * b[2])

RLeq(a, b) == a[1] * b[2] <= b[1] * a[2]

Zero == Rat(0, 1)
One == Rat(1, 1)

\* np.max of a two-element list
np_max(a, b) == IF RLeq(a, b) THEN b ELSE a

\* the literal 5e-2
MinChainStrength == Rat(1, 20)

Unset == <<>>
NoJ == [k \in {} |-> 0]

\* ----------------------------------------------------- collaborators' data
\* raw h: one bias per qubit
RawHs == {[q \in Qubits |-> IF q = 1 THEN c ELSE 0] : c \in {-3, 1}}

\* raw J: a sparse pair -> value mapping, in the shapes the compiler may
\* produce: one-sided (upper or lower triangle), a pair in both orientations,
\* a diagonal key next to an off-diagonal one.
RawJs ==
    { [k \in {<<1, NumQubits>>} |-> 1],
      [k \in {<<NumQubits, 1>>} |-> -3],
      [k \in {<<1, NumQubits>>, <<NumQubits, 1>>} |-> IF k[1] = 1 THEN 1 ELSE -3],
      [k \in {<<1, 1>>, <<1, NumQubits>>} |-> IF k[2] = 1 THEN 1 ELSE -3] }

\* the compiler's possible answers for the reference system
References ==
    { [h |-> [q \in Qubits |-> 0], J |-> NoJ],
      [h |-> [q \in Qubits |-> IF q = 1 THEN 1 ELSE 0],
       J |-> [k \in {<<1, NumQubits>>} |-> -3]] }

\* lowest-energy spin configurations the solver may return
Solutions == {[q \in Qubits |-> IF q <= k THEN 1 ELSE -1] : k \in {0, 1}}

\* the caller's info mapping: key -> value, Absent for a missing key
Absent == -1
InfoKeys == {"compile_time", "backend_time", "user"}
InfoInputs == {[k \in InfoKeys |-> Absent],
               [k \in InfoKeys |-> IF k = "user" THEN 7 ELSE Absent]}

\* constructor arguments
PenaltyCoefficients == {Zero, Rat(1, 25), Rat(2, 1), Rat(-1, 1)}
PenaltyRatios == {Rat(3, 4), Rat(2, 1)}
ChainStrengthRatios == {Rat(21, 20), Rat(1, 2)}
EmbeddingSchemes == {"unary", "hamming"}

VARIABLES
    \* configuration, fixed by the constructor
    shots, embedding_scheme, penalty_ratio, chain_strength_ratio,
    penalty_coefficient_arg,    \* the constructor's penalty_coefficient argument
    reference,                  \* the compiler's answer for the reference system
    \* instance attributes
    penalty_coefficient, chain_strength, h, J, qs,
    \* the call in progress and what the caller sees
    pc, method, compile_only, info, raw_samples, start_run_time, returned, events,
    ncalls

config == <<shots, embedding_scheme, penalty_ratio, chain_strength_ratio,
            penalty_coefficient_arg, reference>>
self == <<penalty_coefficient, chain_strength, h, J, qs>>
call == <<method, compile_only>>
vars == <<config, self, call, pc, info, raw_samples, start_run_time, returned, events,
          ncalls>>

\* ------------------------------------------------------------ event log
\* events: what the current call has done so far, in order
\* a call of a collaborator (or a write into info) that returned out
Ev(op, arg, out) == [op |-> op, arg |-> arg, out |-> out, ok |-> TRUE]

\* a call of a collaborator that raised
Exc(op, arg) == [op |-> op, arg |-> arg, out |-> <<>>, ok |-> FALSE]

\* the arguments of dwp.compile(qs, anneal_schedule[, chain_strength])
CompileArgs(sys, cs) == [qs |-> sys, chain_strength |-> cs]

\* what dwp.compile returns
Compiled(hh, Jmap) == [h |-> hh, J |-> Jmap]

IsExternal(e) == e.op \in {"reference_compile", "compile", "solve"}

\* time.time() on the logical clock
time(evs) == Len(SelectSeq(evs, IsExternal))

NoReturn == [status |-> "none", samples |-> <<>>, h |-> <<>>, J |-> NoJ]
Raised == [NoReturn EXCEPT !.status = "raised"]

\* ------------------------------------------------------------- QSystem
\* A QSystem is the sequence of its evolutions; an evolution records which
\* Hamiltonian terms it sums and its duration.
QSystem == <<>>

Evolution(sx, hp, pen) == [S_x |-> sx, H_p |-> hp, H_pen |-> pen, T |-> 1]

add_evolution(sys, evo) == Append(sys, evo)

\* Backend.__init__: self.qs = QSystem()
Backend_qs == QSystem

\* ------------------------------------- calc_penalty_coefficient_and_chain_strength
values(Jmap) == {Jmap[k] : k \in DOMAIN Jmap}

\* np.max(np.abs(list(h) + list(J.values())))
max_abs(hh, Jmap) ==
    LET mags == {Abs(hh[q]) : q \in DOMAIN hh} \cup {Abs(v) : v \in values(Jmap)}
    IN  CHOOSE m \in mags : \A x \in mags : x <= m

\* max_strength of the reference answer (line 67)
max_strength == Rat(max_abs(reference.h, reference.J), 1)

\* The resolver's result when the instance's penalty coefficient is non-zero
\* (lines 52-56); compiled tells whether the external compiler was called.
explicit_tuning ==
    [penalty_coefficient |-> penalty_coefficient,
     chain_strength |-> np_max(MinChainStrength,
                               RMul(chain_strength_ratio, penalty_coefficient)),
     compiled |-> FALSE]

\* The resolver's result from the reference system (lines 58-74).
reference_tuning ==
    LET chain_strength_multiplier == np_max(One, penalty_ratio)
    IN  [penalty_coefficient |->
             IF embedding_scheme = "unary"
             THEN RMul(penalty_ratio, max_strength) ELSE Zero,
         chain_strength |->
             np_max(MinChainStrength, RMul(chain_strength_multiplier, max_strength)),
         compiled |-> TRUE]

\* mutant: the explicit branch forgets the 0.05 floor
resolver_without_floor ==
    IF penalty_coefficient # Zero
    THEN [explicit_tuning EXCEPT
            !.chain_strength = RMul(chain_strength_ratio, penalty_coefficient)]
    ELSE reference_tuning

\* mutant: the penalty is derived from the reference for every embedding
resolver_ignoring_embedding ==
    IF penalty_coefficient # Zero
    THEN explicit_tuning
    ELSE [reference_tuning EXCEPT
            !.penalty_coefficient = RMul(penalty_ratio, max_strength)]

calc_penalty_coefficient_and_chain_strength ==
    IF penalty_coefficient # Zero THEN explicit_tuning ELSE reference_tuning

\* the reference system the resolver builds: S_x + H_p, unit time
reference_system == add_evolution(QSystem, Evolution(TRUE, TRUE, Zero))

\* events of a resolver run that returns
resolver_events(t) ==
    IF t.compiled
    THEN <<Ev("reference_compile", CompileArgs(reference_system, Unset), reference)>>
    ELSE <<>>

\* ----------------------------------------------------------------- compile
\* J_array = np.zeros((n, n)); for key in J: J_array[key[0], key[1]] = J[key]
densify(Jmap) ==
    [i \in Qubits |-> [j \in Qubits |->
        IF <<i, j>> \in DOMAIN Jmap THEN Jmap[<<i, j>>] ELSE 0]]

transpose(A) == [i \in Qubits |-> [j \in Qubits |-> A[j][i]]]

\* mutant: the transpose is never added
symmetrize_without_transpose(A) == A

\* J_array = J_array + J_array.T
symmetrize(A) == [i \in Qubits |-> [j \in Qubits |-> A[i][j] + transpose(A)[i][j]]]

\* info[key] = value
write(inf, key, value) == [inf EXCEPT ![key] = value]

\* spin_to_bitstring of qhdopt.utils.decoding_utils: spin +1 -> bit 0, -1 -> bit 1
spin_to_bitstring(spins) == [q \in DOMAIN spins |-> (1 - spins[q]) \div 2]

Init ==
    /\ shots \in 0..MaxShots
    /\ embedding_scheme \in EmbeddingSchemes
    /\ penalty_ratio \in PenaltyRatios
    /\ chain_strength_ratio \in ChainStrengthRatios
    /\ penalty_coefficient_arg \in PenaltyCoefficients
    /\ reference \in References
    /\ penalty_coefficient = penalty_coefficient_arg
    /\ chain_strength = Unset
    /\ h = Unset
    /\ J = Unset
    /\ qs = Backend_qs
    /\ pc = "idle"
    /\ method = "none"
    /\ compile_only = FALSE
    /\ info = [k \in InfoKeys |-> Absent]
    /\ raw_samples = <<>>
    /\ start_run_time = 0
    /\ returned = NoReturn
    /\ events = <<>>
    /\ ncalls = 0

\* ------------------------------------------------------------ the caller
\* The caller starts a method on the idle instance, passing its info mapping.
Enter(m, i, co, at) ==
    /\ pc = "idle"
    /\ ncalls < MaxCalls
    /\ ncalls' = ncalls + 1
    /\ method' = m
    /\ compile_only' = co
    /\ info' = i
    /\ pc' = at
    /\ raw_samples' = <<>>
    /\ start_run_time' = 0
    /\ returned' = NoReturn
    /\ events' = <<>>
    /\ UNCHANGED <<config, self>>

call_compile(i) == Enter("compile", i, FALSE, "compile")

call_exec(i, co) == Enter("exec", i, co, "compile")

call_calc_h_and_J == Enter("calc_h_and_J", info, FALSE, "calc")

\* ------------------------------------------------------ compile(self, info)
\* compile(info), called directly or as the first statement of exec, running
\* to its end; exec then reads the clock and goes on to the shot loop.
compile(rawH, rawJ) ==
    LET t == calc_penalty_coefficient_and_chain_strength
        system == add_evolution(qs, Evolution(FALSE, TRUE, t.penalty_coefficient))
        before == resolver_events(t)
        start_compile_time == time(before)
        after == Append(before, Ev("compile", CompileArgs(system, t.chain_strength),
                                   Compiled(rawH, rawJ)))
        end_compile_time == time(after)
    IN  /\ pc = "compile"
        /\ penalty_coefficient' = t.penalty_coefficient
        /\ chain_strength' = t.chain_strength
        /\ qs' = system
        /\ h' = rawH
        /\ J' = symmetrize(densify(rawJ))
        /\ info' = write(info, "compile_time", end_compile_time - start_compile_time)
        /\ events' = Append(after, Ev("write", "compile_time", <<>>))
        /\ IF method = "exec"
           THEN /\ pc' = "loop"
                /\ start_run_time' = time(after)
                /\ returned' = returned
           ELSE /\ pc' = "idle"
                /\ start_run_time' = start_run_time
                /\ returned' = [NoReturn EXCEPT !.status = "returned"]
        /\ UNCHANGED <<config, call, raw_samples, ncalls>>

\* the external compiler raises on the reference system (line 66)
compile_raises_in_resolver ==
    /\ pc = "compile"
    /\ penalty_coefficient = Zero
    /\ events' = <<Exc("reference_compile", CompileArgs(reference_system, Unset))>>
    /\ returned' = Raised
    /\ pc' = "idle"
    /\ UNCHANGED <<config, self, call, info, raw_samples, start_run_time, ncalls>>

\* the external compiler raises on the full system (line 92)
compile_raises ==
    LET t == calc_penalty_coefficient_and_chain_strength
        system == add_evolution(qs, Evolution(FALSE, TRUE, t.penalty_coefficient))
    IN  /\ pc = "compile"
        /\ penalty_coefficient' = t.penalty_coefficient
        /\ chain_strength' = t.chain_strength
        /\ qs' = system
        /\ events' = Append(resolver_events(t),
                             Exc("compile", CompileArgs(system, t.chain_strength)))
        /\ returned' = Raised
        /\ pc' = "idle"
        /\ UNCHANGED <<config, call, h, J, info, raw_samples, start_run_time, ncalls>>

\* ------------------------------------------------- exec(verbose, info, ...)
\* mutant: the sample is put in front of the earlier ones
exec_shot_prepending(solution) ==
    /\ pc = "loop"
    /\ Len(raw_samples) < shots
    /\ raw_samples' = <<solution>> \o raw_samples
    /\ events' = Append(events, Ev("solve", Compiled(h, J), solution))
    /\ UNCHANGED <<config, self, call, pc, info, start_run_time, returned, ncalls>>

\* one iteration of the shot loop: the solver returns its best configuration
exec_shot(solution) ==
    /\ pc = "loop"
    /\ Len(raw_samples) < shots
    /\ raw_samples' = Append(raw_samples, solution)
    /\ events' = Append(events, Ev("solve", Compiled(h, J), solution))
    /\ UNCHANGED <<config, self, call, pc, info, start_run_time, returned, ncalls>>

\* mutant: the solver's error is swallowed and the shot is tried again
exec_shot_raises_retrying ==
    /\ pc = "loop"
    /\ Len(raw_samples) < shots
    /\ Len(events) < 2 * MaxShots + 3
    /\ events' = Append(events, Exc("solve", Compiled(h, J)))
    /\ UNCHANGED <<config, self, call, pc, info, raw_samples, start_run_time, returned,
                   ncalls>>

\* one iteration of the shot loop: the solver raises
exec_shot_raises ==
    /\ pc = "loop"
    /\ Len(raw_samples) < shots
    /\ raw_samples' = <<>>
    /\ events' = Append(events, Exc("solve", Compiled(h, J)))
    /\ returned' = Raised
    /\ pc' = "idle"
    /\ UNCHANGED <<config, self, call, info, start_run_time, ncalls>>

\* mutant: the run time goes into a fresh mapping instead of the caller's
exec_return_rebinding_info ==
    /\ pc = "loop"
    /\ Len(raw_samples) = shots
    /\ info' = [k \in InfoKeys |->
                  IF k = "backend_time" THEN time(events) - start_run_time ELSE Absent]
    /\ events' = Append(events, Ev("write", "backend_time", <<>>))
    /\ returned' = [NoReturn EXCEPT !.status = "returned",
                        !.samples = [k \in 1..Len(raw_samples) |->
                                        spin_to_bitstring(raw_samples[k])]]
    /\ raw_samples' = <<>>
    /\ pc' = "idle"
    /\ UNCHANGED <<config, self, call, start_run_time, ncalls>>

\* the loop is over: record the run time, decode the samples, return them
exec_return ==
    /\ pc = "loop"
    /\ Len(raw_samples) = shots
    /\ info' = write(info, "backend_time", time(events) - start_run_time)
    /\ events' = Append(events, Ev("write", "backend_time", <<>>))
              \o [k \in 1..Len(raw_samples) |->
                    Ev("decode", raw_samples[k], spin_to_bitstring(raw_samples[k]))]
    /\ returned' = [NoReturn EXCEPT !.status = "returned",
                        !.samples = [k \in 1..Len(raw_samples) |->
                                        spin_to_bitstring(raw_samples[k])]]
    /\ raw_samples' = <<>>
    /\ pc' = "idle"
    /\ UNCHANGED <<config, self, call, start_run_time, ncalls>>

\* ----------------------------------------------------- calc_h_and_J(self)
\* mutant: the export stores the tuning parameters it resolved on the instance
calc_h_and_J_caching(rawH, rawJ) ==
    LET t == calc_penalty_coefficient_and_chain_strength
        system == add_evolution(qs, Evolution(TRUE, TRUE, t.penalty_coefficient))
    IN  /\ pc = "calc"
        /\ penalty_coefficient' = t.penalty_coefficient
        /\ chain_strength' = t.chain_strength
        /\ qs' = system
        /\ events' = Append(resolver_events(t),
                             Ev("compile", CompileArgs(system, t.chain_strength),
                                Compiled(rawH, rawJ)))
        /\ returned' = [NoReturn EXCEPT !.status = "returned", !.h = rawH, !.J = rawJ]
        /\ pc' = "idle"
        /\ UNCHANGED <<config, call, h, J, info, raw_samples, start_run_time, ncalls>>

\* the whole method, the compiler returning (rawH, rawJ)
calc_h_and_J(rawH, rawJ) ==
    LET t == calc_penalty_coefficient_and_chain_strength
        system == add_evolution(qs, Evolution(TRUE, TRUE, t.penalty_coefficient))
    IN  /\ pc = "calc"
        /\ qs' = system
        /\ events' = Append(resolver_events(t),
                             Ev("compile", CompileArgs(system, t.chain_strength),
                                Compiled(rawH, rawJ)))
        /\ returned' = [NoReturn EXCEPT !.status = "returned", !.h = rawH, !.J = rawJ]
        /\ pc' = "idle"
        /\ UNCHANGED <<config, call, penalty_coefficient, chain_strength, h, J, info,
                       raw_samples, start_run_time, ncalls>>

\* the external compiler raises on the reference system (line 66)
calc_h_and_J_raises_in_resolver ==
    /\ pc = "calc"
    /\ penalty_coefficient = Zero
    /\ events' = <<Exc("reference_compile", CompileArgs(reference_system, Unset))>>
    /\ returned' = Raised
    /\ pc' = "idle"
    /\ UNCHANGED <<config, self, call, info, raw_samples, start_run_time, ncalls>>

\* the external compiler raises on the full system (line 157)
calc_h_and_J_raises ==
    LET t == calc_penalty_coefficient_and_chain_strength
        system == add_evolution(qs, Evolution(TRUE, TRUE, t.penalty_coefficient))
    IN  /\ pc = "calc"
        /\ qs' = system
        /\ events' = Append(resolver_events(t),
                             Exc("compile", CompileArgs(system, t.chain_strength)))
        /\ returned' = Raised
        /\ pc' = "idle"
        /\ UNCHANGED <<config, call, penalty_coefficient, chain_strength, h, J, info,
                       raw_samples, start_run_time, ncalls>>

Next ==
    \/ \E i \in InfoInputs : call_compile(i)
    \/ \E i \in InfoInputs, co \in BOOLEAN : call_exec(i, co)
    \/ call_calc_h_and_J
    \/ \E rawH \in RawHs, rawJ \in RawJs : compile(rawH, rawJ)
    \/ compile_raises_in_resolver
    \/ compile_raises
    \/ \E solution \in Solutions : exec_shot(solution)
    \/ exec_shot_raises
    \/ exec_return
    \/ \E rawH \in RawHs, rawJ \in RawJs : calc_h_and_J(rawH, rawJ)
    \/ calc_h_and_J_raises_in_resolver
    \/ calc_h_and_J_raises

Spec == Init /\ [][Next]_vars

\* ================================================================ claims
IsSolve(e) == e.op = "solve"
IsDecode(e) == e.op = "decode"
IsReferenceCompile(e) == e.op = "reference_compile"
IsFullCompile(e) == e.op = "compile"
IsWrite(e) == e.op = "write"

\* the solver invocations of the current call, in order
Runs == SelectSeq(events, IsSolve)

Returned == pc = "idle" /\ returned.status = "returned"
Aborted == pc = "idle" /\ returned.status = "raised"

\* C1: exec(verbose, info, compile_only=True) returns without invoking the
\* solver and without writing backend_time into info.
C1_CompileOnlySkipsSolver ==
    (method = "exec" /\ compile_only /\ Returned)
        => (Runs = <<>> /\ info["backend_time"] = Absent)

\* C2: exec(compile_only=False) with shots = N, no collaborator raising,
\* invokes the solver exactly N times and returns N bitstrings, the k-th being
\* the decoding of the configuration the k-th solver run returned.
C2_ShotsInRunOrder ==
    (method = "exec" /\ ~compile_only /\ Returned)
        => /\ Len(Runs) = shots
           /\ Len(returned.samples) = shots
           /\ \A k \in 1..shots :
                returned.samples[k] = spin_to_bitstring(Runs[k].out)

C2_Witness ==
    /\ method = "exec" /\ ~compile_only /\ Returned
    /\ shots = 2
    /\ Runs[1].out # Runs[2].out
    /\ returned.samples[1] # returned.samples[2]

\* C3: after a successful compile, for every raw J mapping (one-sided, both
\* orientations, diagonal keys) self.J is a square qubit x qubit matrix with
\* J[i][j] = J[j][i].
C3_JSymmetric ==
    J # Unset
        => /\ DOMAIN J = Qubits
           /\ \A i \in Qubits : DOMAIN J[i] = Qubits
           /\ \A i, j \in Qubits : J[i][j] = J[j][i]

\* the raw J had both orientations of the pair, with different values
C3_Witness ==
    /\ method = "compile" /\ Returned
    /\ \E e \in {events[k] : k \in DOMAIN events} :
          /\ IsFullCompile(e)
          /\ DOMAIN e.out.J = {<<1, NumQubits>>, <<NumQubits, 1>>}
          /\ e.out.J[<<1, NumQubits>>] # e.out.J[<<NumQubits, 1>>]
    /\ J[1][NumQubits] = -2
    /\ J[NumQubits][1] = -2

\* the compiler calls on the full system made by the current call
FullCompiles(evs) == SelectSeq(evs, IsFullCompile)

\* the penalty coefficient of the evolution the call added to the system
LastPenalty(sys) == sys[Len(sys)].H_pen

\* max(0.05, ratio * x), from numerators and denominators
FlooredProduct(ratio, x) ==
    LET n == ratio[1] * x[1]
        d == ratio[2] * x[2]
    IN  IF 20 * n >= d THEN Rat(n, d) ELSE Rat(1, 20)

\* C4: with a non-zero penalty coefficient on the instance the resolver
\* returns it unchanged with chain strength max(0.05, chain_strength_ratio *
\* penalty_coefficient), without compiling a reference system.  Observed on
\* every step of compile and calc_h_and_J that runs the resolver: the values
\* handed to the compiler, the values stored, and the absence of a reference
\* compilation.
C4_ExplicitPenalty ==
    [][ (pc \in {"compile", "calc"} /\ penalty_coefficient # Zero)
          => /\ SelectSeq(events', IsReferenceCompile) = <<>>
             /\ Len(FullCompiles(events')) = 1
             /\ FullCompiles(events')[1].arg.chain_strength
                    = FlooredProduct(chain_strength_ratio, penalty_coefficient)
             /\ LastPenalty(FullCompiles(events')[1].arg.qs) = penalty_coefficient
             /\ (pc = "compile"
                   => /\ penalty_coefficient' = penalty_coefficient
                      /\ chain_strength'
                            = FlooredProduct(chain_strength_ratio, penalty_coefficient))
      ]_vars

\* the 0.05 floor applies: 1.05 * 0.04 < 0.05
C4_Witness ==
    /\ method = "compile" /\ Returned
    /\ penalty_coefficient_arg = Rat(1, 25)
    /\ penalty_coefficient = Rat(1, 25)
    /\ chain_strength_ratio = Rat(21, 20)
    /\ chain_strength = Rat(1, 20)
    /\ SelectSeq(events, IsReferenceCompile) = <<>>

\* the absolute values of the reference coefficients
RefMagnitudes ==
    {Abs(reference.h[q]) : q \in DOMAIN reference.h}
        \cup {Abs(reference.J[k]) : k \in DOMAIN reference.J}

\* max(0.05, max(1, penalty_ratio) * max_magnitude)
ReferenceChainStrength ==
    LET m == CHOOSE x \in RefMagnitudes : \A y \in RefMagnitudes : y <= x
        mult == IF penalty_ratio[1] > penalty_ratio[2] THEN penalty_ratio ELSE <<1, 1>>
    IN  FlooredProduct(mult, <<m, 1>>)

\* C5: configured penalty coefficient 0 and an embedding other than "unary":
\* the resolved penalty coefficient is 0 for every reference (h, J), stays 0
\* on the instance over any number of calls, and the chain strength is
\* max(0.05, max(1, penalty_ratio) * max_magnitude).
C5_NonUnaryZeroPenalty ==
    (penalty_coefficient_arg = Zero /\ embedding_scheme # "unary")
        => /\ penalty_coefficient = Zero
           /\ \A k \in DOMAIN qs : qs[k].H_pen = Zero
           /\ chain_strength \in {Unset, ReferenceChainStrength}
           /\ \A k \in DOMAIN events :
                (IsFullCompile(events[k]))
                    => events[k].arg.chain_strength = ReferenceChainStrength

\* second compile on a non-unary instance, reference magnitude 3, ratio 2
C5_Witness ==
    /\ penalty_coefficient_arg = Zero /\ embedding_scheme # "unary"
    /\ ncalls = 2 /\ Len(qs) = 2
    /\ method = "compile" /\ Returned
    /\ penalty_ratio = Rat(2, 1)
    /\ chain_strength = Rat(6, 1)
    /\ penalty_coefficient = Zero

C6_Keys ==
    /\ (method = "compile" /\ Returned)
          => (info["compile_time"] # Absent /\ info["backend_time"] = Absent)
    /\ (method = "exec" /\ ~compile_only /\ Returned)
          => (info["compile_time"] # Absent /\ info["backend_time"] # Absent)
    /\ (Runs # <<>>) => info["compile_time"] # Absent
    /\ (method = "exec" /\ info["backend_time"] # Absent)
          => (pc = "idle" /\ Len(Runs) = shots /\ \A k \in 1..Len(Runs) : Runs[k].ok)

C6_Frame ==
    /\ (pc # "idle") => (\A k \in InfoKeys \ {"compile_time", "backend_time"} :
                            info'[k] = info[k])
    /\ (pc = "compile" /\ pc' # "compile")
          => (info'["backend_time"] = info["backend_time"])
    /\ (pc = "loop" /\ pc' = "loop") => (info' = info)
    /\ (method' = "calc_h_and_J") => (info' = info)

\* C6: the backend writes only compile_time and backend_time into info:
\* compile writes exactly compile_time, a completed exec(compile_only=False)
\* leaves both, every other key keeps its value across compile, exec and
\* calc_h_and_J; compile_time is written before the first solver run and
\* backend_time only after the last one.
C6_InfoKeys == []C6_Keys /\ [][C6_Frame]_vars

C6_Witness ==
    /\ method = "exec" /\ ~compile_only /\ Returned
    /\ shots = 2
    /\ info["user"] = 7
    /\ info["compile_time"] = 1
    /\ info["backend_time"] = 2

\* C7: calc_h_and_J leaves self.penalty_coefficient, self.chain_strength,
\* self.h, self.J and info as they were and returns the compiler's raw h and
\* raw pair -> value J.
C7_ExportKeepsCache ==
    [][ (method' = "calc_h_and_J")
          => /\ UNCHANGED <<penalty_coefficient, chain_strength, h, J, info>>
             /\ (returned'.status = "returned"
                   => /\ returned'.h = FullCompiles(events')[1].out.h
                      /\ returned'.J = FullCompiles(events')[1].out.J)
      ]_vars

\* an export after a compile on a unary instance: the resolver yields a
\* non-zero penalty, the compiler another h, and the cache keeps its values
C7_Witness ==
    /\ method = "calc_h_and_J" /\ Returned
    /\ J # Unset
    /\ returned.h # h
    /\ DOMAIN returned.J = {<<1, NumQubits>>, <<NumQubits, 1>>}
    /\ Len(qs) = 2

\* C8: the system a compile call hands to the external compiler holds exactly
\* one evolution, however many compile or export calls came before.
C8_OneEvolutionPerCompile ==
    (method \in {"compile", "exec"})
        => \A k \in DOMAIN events :
              IsFullCompile(events[k]) => Len(events[k].arg.qs) = 1

\* C9: on an instance constructed with penalty_coefficient = 0, every compile
\* resolves the same (penalty_coefficient, chain_strength) pair as the first.
C9_SameTuningEveryCompile ==
    [][ (penalty_coefficient_arg = Zero /\ chain_strength # Unset)
          => (penalty_coefficient' = penalty_coefficient
              /\ chain_strength' = chain_strength) ]_vars

SolverRaises == {k \in DOMAIN events : IsSolve(events[k]) /\ ~events[k].ok}
CompilerRaises ==
    {k \in DOMAIN events : events[k].op \in {"compile", "reference_compile"}
                              /\ ~events[k].ok}

\* C10: a solver error in shot k aborts exec: k invocations, no retry, no
\* samples returned or decoded, compile_time present, backend_time absent.
\* A compiler error inside compile: no solver invocation, neither key written.
C10_ErrorsAbort ==
    /\ (SolverRaises # {})
          => /\ Aborted /\ method = "exec"
             /\ SolverRaises = {Len(events)}
             /\ Len(Runs) \in 1..shots
             /\ \A k \in 1..(Len(Runs) - 1) : Runs[k].ok
             /\ returned.samples = <<>>
             /\ SelectSeq(events, IsDecode) = <<>>
             /\ info["compile_time"] # Absent
             /\ info["backend_time"] = Absent
    /\ (CompilerRaises # {} /\ method \in {"compile", "exec"})
          => /\ Aborted
             /\ Runs = <<>>
             /\ info["compile_time"] = Absent
             /\ info["backend_time"] = Absent

\* the solver raised in the second of two shots
C10_Witness ==
    /\ method = "exec" /\ Aborted
    /\ shots = 2
    /\ Len(Runs) = 2
    /\ Runs[1].ok /\ ~Runs[2].ok
====
